---- MODULE Spec2Model ----
(***************************************************************************)
(* AMD enclosure LED control over IPMI (src/src/amd.c, src/src/amd_ipmi.c). *)
(*                                                                         *)
(* C strings are sequences of one-character strings; a position is a       *)
(* 1-based index and 0 stands for a NULL result.  C ints are kept at 32    *)
(* bits, uint8_t values at 8 bits.                                         *)
(***************************************************************************)
EXTENDS Integers, Sequences, FiniteSets, TLC

VARIABLES
    amd_interface,  \* static enum amd_led_interfaces amd_interface (amd.c:50)
    amd_platform,   \* enum amd_platforms amd_platform: read by amd_ipmi.c, assigned nowhere in these files
    pc,             \* position of the caller: "idle", "ipmi" (inside _amd_ipmi_write), "done"
    call,           \* the entry point running or just finished, with its arguments
    drive,          \* struct amd_drive filled by _get_amd_ipmi_drive
    queue,          \* _set_ipmi_register calls the running handler still has to make
    calls,          \* ipmicmd requests issued by the running handler, in order, with outcomes
    rc,             \* the handler's local rc
    ret             \* value returned by the finished entry point

vars == <<amd_interface, amd_platform, pc, call, drive, queue, calls, rc, ret>>

-----------------------------------------------------------------------------
(* Bounds of the explored inputs *)

\* PCI slot directories are named 0 .. MaxSlot
MaxSlot == 33
\* SATA controller paths name ata1 .. ata<MaxAta>
MaxAta == 25

-----------------------------------------------------------------------------
(* Integer arithmetic of the C types *)

Min(S) == CHOOSE x \in S : \A y \in S : x <= y
Max(S) == CHOOSE x \in S : \A y \in S : x >= y

ToU8(x) == x % 256

\* the C operators |, & and ~ on int operands (two's complement, 32 bits)
RECURSIVE OrInt(_, _)
OrInt(a, b) ==
    IF a = 0 THEN b
    ELSE IF b = 0 THEN a
    ELSE IF a = -1 \/ b = -1 THEN -1
    ELSE (IF a % 2 = 1 \/ b % 2 = 1 THEN 1 ELSE 0) + 2 * OrInt(a \div 2, b \div 2)

RECURSIVE AndInt(_, _)
AndInt(a, b) ==
    IF a = 0 \/ b = 0 THEN 0
    ELSE IF a = -1 THEN b
    ELSE IF b = -1 THEN a
    ELSE (IF a % 2 = 1 /\ b % 2 = 1 THEN 1 ELSE 0) + 2 * AndInt(a \div 2, b \div 2)

NotInt(a) == -(a + 1)

INT_MIN == -2147483647 - 1

\* bit i (0 = least significant) of a non-negative value
BitAt(x, i) == (x \div (2 ^ i)) % 2

-----------------------------------------------------------------------------
(* C string functions, as the code uses them *)

Digits == <<"0", "1", "2", "3", "4", "5", "6", "7", "8", "9">>
IsDigit(c) == \E i \in 1..10 : Digits[i] = c
DigitVal(c) == (CHOOSE i \in 1..10 : Digits[i] = c) - 1
IsSpace(c) == c \in {" ", "\t", "\n"}

\* decimal text of a natural number (how the explored file names are written)
RECURSIVE Dec(_)
Dec(n) == IF n < 10 THEN <<Digits[n + 1]>> ELSE Dec(n \div 10) \o <<Digits[(n % 10) + 1]>>

\* strstr(s, needle): position of the first occurrence, 0 when there is none
strstr(s, needle) ==
    LET at == {i \in 1..(Len(s) - Len(needle) + 1) :
                   SubSeq(s, i, i + Len(needle) - 1) = needle}
    IN IF at = {} THEN 0 ELSE Min(at)

\* strchr(s + from - 1, c): position of the first c at or after from, 0 when none
strchr(s, from, c) ==
    LET at == {i \in from..Len(s) : s[i] = c}
    IN IF at = {} THEN 0 ELSE Min(at)

\* strrchr(s, c): position of the last c, 0 when none
strrchr(s, c) ==
    LET at == {i \in 1..Len(s) : s[i] = c}
    IN IF at = {} THEN 0 ELSE Max(at)

\* strncmp(s, lit, n) == 0: the first n characters agree, or both strings
\* end, equal, before that
strncmp0(s, lit, n) ==
    SubSeq(s, 1, Min({n, Len(s)})) = SubSeq(lit, 1, Min({n, Len(lit)}))

\* value of the longest run of decimal digits at the start of s
RECURSIVE DigitRun(_, _)
DigitRun(s, acc) ==
    IF s = <<>> \/ ~IsDigit(Head(s)) THEN acc
    ELSE DigitRun(Tail(s), 10 * acc + DigitVal(Head(s)))

RECURSIVE SkipSpace(_)
SkipSpace(s) == IF s # <<>> /\ IsSpace(Head(s)) THEN SkipSpace(Tail(s)) ELSE s

\* the mathematical value strtol/strtoul read from s in base 10: white space,
\* an optional sign, then digits; 0 when no digits follow
ParseDecimal(s) ==
    LET t == SkipSpace(s)
        neg == t # <<>> /\ Head(t) = "-"
        u == IF t # <<>> /\ Head(t) \in {"-", "+"} THEN Tail(t) ELSE t
        v == DigitRun(u, 0)
    IN IF neg THEN -v ELSE v

\* (int) strtoul(s, NULL, 10): for the digit strings explored here the value
\* fits an int, and a leading '-' gives the negated value after the conversion
strtoul(s) == ParseDecimal(s)

\* atoi(s)
atoi(s) == ParseDecimal(s)

-----------------------------------------------------------------------------
(* Platforms, devices and the sysfs files drive resolution reads *)

ETHANOL_X == "AMD_PLATFORM_ETHANOL_X"
DAYTONA_X == "AMD_PLATFORM_DAYTONA_X"
\* any enumerator the switches of amd_ipmi.c send to their default branch
OTHER_PLATFORM == "AMD_PLATFORM_OTHER"
Platforms == {ETHANOL_X, DAYTONA_X, OTHER_PLATFORM}

AMD_NVME_DEVICE == "AMD_NVME_DEVICE"
AMD_SATA_DEVICE == "AMD_SATA_DEVICE"

\* /sys/bus/pci/slots in listing order: the base name of each slot directory and
\* the text of its address file.  Odd slots carry a "-1" suffix, and the last
\* directory repeats the address of slot 5.
SlotName(n) == IF n % 2 = 1 THEN Dec(n) \o <<"-", "1">> ELSE Dec(n)
SlotAddress(n) == <<"e">> \o Dec(n) \o <<":", "0", "0">>
PciSlots ==
    [i \in 1..(MaxSlot + 1) |-> [name |-> SlotName(i - 1), address |-> SlotAddress(i - 1)]]
    \o <<[name |-> Dec(30), address |-> SlotAddress(5)]>>

\* a block device as drive resolution sees it: its controller path, and the
\* directory _find_file_path(cntrl_path, "nvme") reports (<<>> when it finds none)
NvmeCntrl(n) == <<"/", "p", "/">> \o SlotAddress(n) \o <<".", "0">>
NvmeDevice(n) == [cntrl_path |-> NvmeCntrl(n), nvme_dir |-> NvmeCntrl(n)]
NvmeNoSlot ==
    [cntrl_path |-> <<"/", "p", "/", "f", "0", ":", "0", "0", ".", "0">>,
     nvme_dir |-> <<"/", "p", "/", "f", "0", ":", "0", "0", ".", "0">>]
SataDevice(n) ==
    [cntrl_path |-> <<"/", "p", "/", "a", "t", "a">> \o Dec(n) \o <<"/", "h">>,
     nvme_dir |-> <<>>]
\* no "ata" in the path
SataNoAta == [cntrl_path |-> <<"/", "p", "/", "h", "0">>, nvme_dir |-> <<>>]
\* "ata3" ends the path, no '/' follows
SataNoSlash == [cntrl_path |-> <<"/", "p", "/", "a", "t", "a", "3">>, nvme_dir |-> <<>>]
\* a negative number after "ata"
SataMinus == [cntrl_path |-> <<"/", "a", "t", "a", "-", "1", "/", "h">>, nvme_dir |-> <<>>]
NvmeDevices == {NvmeDevice(n) : n \in 0..MaxSlot} \cup {NvmeNoSlot}
SataDevices ==
    {SataDevice(n) : n \in 1..MaxAta} \cup {SataNoAta, SataNoSlash, SataMinus}
AllDevices == NvmeDevices \cup SataDevices

\* what scan_dir("/sys/bus/pci/slots") returns
ScanResults == {0, -1}

\* 1 << n is undefined for a negative n: the build's shift instruction gives one of these
UndefinedShift == {0, INT_MIN}

NoDrive == [port |-> -1, drive_bay |-> 0, dev |-> "none"]

-----------------------------------------------------------------------------
(* Drive resolution, amd_ipmi.c *)

\* mutant of NvmePortAdjust: the two corrections exchanged
NvmePortAdjust_Exchanged(port) ==
    CASE amd_platform = DAYTONA_X -> port - 7
      [] amd_platform = ETHANOL_X -> port - 2
      [] OTHER -> port

\* lines 98-107: the platform's adjustment of the port
NvmePortAdjust(port) ==
    CASE amd_platform = DAYTONA_X -> port - 2
      [] amd_platform = ETHANOL_X -> port - 7
      [] OTHER -> port

\* lines 112-115: the validation of the port
NvmePortValidate(port) == IF (port < 0) \/ (port > 24) THEN -1 ELSE port

\* lines 71-91: the port named by the first slot whose address is the path's
\* last component up to its '.', -1 when no slot has it
NvmeSlotPort(path) ==
    LET p == SubSeq(path, strrchr(path, "/") + 1, Len(path))
        f == strchr(p, 1, ".")
        addr == SubSeq(p, 1, f - 1)
        hits == {i \in 1..Len(PciSlots) : PciSlots[i].address = addr}
    IN IF hits = {} THEN -1 ELSE atoi(PciSlots[Min(hits)].name)

_get_ipmi_nvme_port(path, scan_rc) ==
    IF scan_rc # 0 THEN -1
    ELSE NvmePortValidate(NvmePortAdjust(NvmeSlotPort(path)))

_get_ipmi_sata_port(start_path) ==
    LET t == strstr(start_path, <<"a", "t", "a">>)
        p == IF t = 0 THEN 0 ELSE strchr(start_path, t, "/")
    IN IF t = 0 THEN -1
       ELSE IF p = 0 THEN -1
       ELSE strtoul(SubSeq(start_path, t + 3, p - 1))

\* 1 << n on int
ShiftLeft1(n, undef) == IF n \in 0..30 THEN 2 ^ n ELSE undef

\* lines 177-179
SataShift(port) == LET shift == port - 1 IN IF shift >= 8 THEN shift % 8 ELSE shift

\* lines 155-158 and 166-169: the port the drive is refused for
PortRefused(port) == port < 0

\* returns [rc, drive]; undef is what an undefined shift yields
_get_amd_ipmi_drive(device, scan_rc, undef) ==
    IF device.nvme_dir # <<>>
    THEN LET port == _get_ipmi_nvme_port(device.nvme_dir, scan_rc)
         IN IF PortRefused(port) THEN [rc |-> -1, drive |-> NoDrive]
            ELSE [rc |-> 0,
                  drive |-> [port |-> port,
                             drive_bay |-> ShiftLeft1(port - 1, undef),
                             dev |-> AMD_NVME_DEVICE]]
    ELSE LET port == _get_ipmi_sata_port(device.cntrl_path)
         IN IF PortRefused(port) THEN [rc |-> -1, drive |-> NoDrive]
            ELSE [rc |-> 0,
                  drive |-> [port |-> port,
                             drive_bay |-> ShiftLeft1(SataShift(port), undef),
                             dev |-> AMD_SATA_DEVICE]]

NoCall == [fn |-> "none"]

\* the state every specification starts a call from
Idle ==
    /\ pc = "idle"
    /\ call = NoCall
    /\ drive = NoDrive
    /\ queue = <<>>
    /\ calls = <<>>
    /\ rc = 0
    /\ ret = 0

-----------------------------------------------------------------------------
(* Drive resolution on its own: every device of AllDevices on every platform *)

InitDrive ==
    /\ amd_interface = "AMD_UNSET"
    /\ amd_platform \in Platforms
    /\ Idle

GetAmdIpmiDrive ==
    \E device \in AllDevices, scan_rc \in ScanResults, undef \in UndefinedShift :
        LET r == _get_amd_ipmi_drive(device, scan_rc, undef)
        IN /\ call' = [fn |-> "_get_amd_ipmi_drive", device |-> device, scan_rc |-> scan_rc]
           /\ drive' = r.drive
           /\ ret' = r.rc
           /\ pc' = "done"
           /\ UNCHANGED <<amd_interface, amd_platform, queue, calls, rc>>

NextDrive == GetAmdIpmiDrive

SpecDrive == InitDrive /\ [][NextDrive]_vars

-----------------------------------------------------------------------------
(* The register protocol, amd_ipmi.c *)

\* lines 46-53: an element the initializer does not name is 0
amd_ibpi_ipmi_register(ibpi) ==
    CASE ibpi = "IBPI_PATTERN_PFA" -> 65
      [] ibpi = "IBPI_PATTERN_LOCATE" -> 66
      [] ibpi = "IBPI_PATTERN_FAILED_DRIVE" -> 68
      [] ibpi = "IBPI_PATTERN_FAILED_ARRAY" -> 69
      [] ibpi = "IBPI_PATTERN_REBUILD" -> 70
      [] ibpi = "IBPI_PATTERN_HOTSPARE" -> 71
      [] OTHER -> 0

SettablePatterns ==
    {"IBPI_PATTERN_PFA", "IBPI_PATTERN_LOCATE", "IBPI_PATTERN_FAILED_DRIVE",
     "IBPI_PATTERN_FAILED_ARRAY", "IBPI_PATTERN_REBUILD", "IBPI_PATTERN_HOTSPARE"}
NormalPatterns == {"IBPI_PATTERN_NORMAL", "IBPI_PATTERN_ONESHOT_NORMAL"}
Patterns ==
    SettablePatterns \cup NormalPatterns
    \cup {"IBPI_PATTERN_LOCATE_OFF", "IBPI_PATTERN_DEGRADED", "IBPI_PATTERN_UNKNOWN"}

\* uint8_t channel: the default branch stores -1 in it
_ipmi_platform_channel ==
    CASE amd_platform = ETHANOL_X -> 13
      [] amd_platform = DAYTONA_X -> 23
      [] OTHER -> ToU8(-1)

\* mutant of _ipmi_platform_slave_address: the first SATA chip ends at port 7
_ipmi_platform_slave_address_Boundary(drv) ==
    CASE amd_platform = ETHANOL_X -> 192
      [] amd_platform = DAYTONA_X ->
            IF drv = NoDrive THEN 192
            ELSE IF drv.dev = AMD_NVME_DEVICE THEN 196
            ELSE IF drv.port < 8 THEN 192
            ELSE IF drv.port >= 8 /\ drv.port < 17 THEN 194
            ELSE 196
      [] OTHER -> ToU8(-1)

\* uint8_t addr; drv is NoDrive for the NULL argument
_ipmi_platform_slave_address(drv) ==
    CASE amd_platform = ETHANOL_X -> 192
      [] amd_platform = DAYTONA_X ->
            IF drv = NoDrive THEN 192
            ELSE IF drv.dev = AMD_NVME_DEVICE THEN 196
            ELSE IF drv.port <= 8 THEN 192
            ELSE IF drv.port > 8 /\ drv.port < 17 THEN 194
            ELSE 196
      [] OTHER -> ToU8(-1)

\* lines 269 and 359: the test made on the two uint8_t values
PlatformUndefined(channel, slave_addr) == (channel < 0) \/ (slave_addr < 0)

\* mutant of NewDrivesStatus: the disable branch without the complement
NewDrivesStatus_NoComplement(enable, status, drive_bay) ==
    LET drives_status == ToU8(status)
    IN IF enable # 0 THEN ToU8(OrInt(drives_status, drive_bay))
       ELSE ToU8(AndInt(drives_status, drive_bay))

\* lines 292-297: uint8_t new_drives_status from uint8_t drives_status, int drive_bay
NewDrivesStatus(enable, status, drive_bay) ==
    LET drives_status == ToU8(status)
    IN IF enable # 0 THEN ToU8(OrInt(drives_status, drive_bay))
       ELSE ToU8(AndInt(drives_status, NotInt(drive_bay)))

\* the 4-byte request of ipmicmd(BMC_SA, 0x0, 0x6, 0x52, 4, ...) with its outcome
ReadRequest(channel, slave_addr, reg, rd_rc, status) ==
    [data_len |-> 4, channel |-> channel, slave_addr |-> slave_addr, len |-> 1,
     reg |-> reg, data |-> 0, rc |-> rd_rc, status |-> IF rd_rc = 0 THEN status ELSE 0]

\* the 5-byte request of ipmicmd(BMC_SA, 0x0, 0x6, 0x52, 5, ...) with its outcome
WriteRequest(channel, slave_addr, reg, data, wr_rc) ==
    [data_len |-> 5, channel |-> channel, slave_addr |-> slave_addr, len |-> 1,
     reg |-> reg, data |-> data, rc |-> wr_rc, status |-> 0]

\* mutant of AfterReadFailure: the write is sent although the read failed
AfterReadFailure_WritesAnyway(rd_rc, read, write) ==
    [rc |-> rd_rc, calls |-> <<read, write>>]

\* lines 284-290: what a failed read leads to
AfterReadFailure(rd_rc, read, write) == [rc |-> rd_rc, calls |-> <<read>>]

\* returns [rc, calls]: the value returned and the requests issued; rd_rc, status
\* and wr_rc are what the transport answers to the read and to the write
_set_ipmi_register(enable, reg, drv, rd_rc, status, wr_rc) ==
    LET channel == _ipmi_platform_channel
        slave_addr == _ipmi_platform_slave_address(drv)
        read == ReadRequest(channel, slave_addr, reg, rd_rc, status)
        write == WriteRequest(channel, slave_addr, reg,
                              NewDrivesStatus(enable, status, drv.drive_bay), wr_rc)
    IN IF PlatformUndefined(channel, slave_addr) THEN [rc |-> -1, calls |-> <<>>]
       ELSE IF rd_rc # 0 THEN AfterReadFailure(rd_rc, read, write)
       ELSE IF wr_rc # 0 THEN [rc |-> wr_rc, calls |-> <<read, write>>]
       ELSE [rc |-> 0, calls |-> <<read, write>>]

\* a _set_ipmi_register call the handler makes, and what it does with the result:
\* "or" is rc |= ..., "return_if" is rc = ...; if (rc) return rc;
_enable_smbus_control(then) == [enable |-> 1, reg |-> 60, then |-> then]
_enable_ibpi_state(ibpi, then) ==
    [enable |-> 1, reg |-> amd_ibpi_ipmi_register(ibpi), then |-> then]
_disable_ibpi_state(ibpi, then) ==
    [enable |-> 0, reg |-> amd_ibpi_ipmi_register(ibpi), then |-> then]

\* mutant of _disable_all_ibpi_states: the first failure ends the sequence
_disable_all_ibpi_states_ShortCircuit ==
    <<_disable_ibpi_state("IBPI_PATTERN_PFA", "return_if"),
      _disable_ibpi_state("IBPI_PATTERN_LOCATE", "return_if"),
      _disable_ibpi_state("IBPI_PATTERN_FAILED_DRIVE", "return_if"),
      _disable_ibpi_state("IBPI_PATTERN_FAILED_ARRAY", "return_if"),
      _disable_ibpi_state("IBPI_PATTERN_REBUILD", "return_if")>>

_disable_all_ibpi_states ==
    <<_disable_ibpi_state("IBPI_PATTERN_PFA", "or"),
      _disable_ibpi_state("IBPI_PATTERN_LOCATE", "or"),
      _disable_ibpi_state("IBPI_PATTERN_FAILED_DRIVE", "or"),
      _disable_ibpi_state("IBPI_PATTERN_FAILED_ARRAY", "or"),
      _disable_ibpi_state("IBPI_PATTERN_REBUILD", "or")>>

\* mutant of EnableSequence: the result of _enable_smbus_control not tested
EnableSequence_Unchecked(ibpi) ==
    <<_enable_smbus_control("or"), _enable_ibpi_state(ibpi, "return_if")>>

\* lines 410-418
EnableSequence(ibpi) ==
    <<_enable_smbus_control("return_if"), _enable_ibpi_state(ibpi, "return_if")>>

\* mutant of WriteSequence: LOCATE_OFF clears every pattern register
WriteSequence_LocateOffClearsAll(ibpi) ==
    IF ibpi \in NormalPatterns \cup {"IBPI_PATTERN_LOCATE_OFF"}
    THEN _disable_all_ibpi_states
    ELSE EnableSequence(ibpi)

\* lines 399-418 of _amd_ipmi_write: the calls made once the drive is resolved
WriteSequence(ibpi) ==
    IF ibpi \in NormalPatterns THEN _disable_all_ibpi_states
    ELSE IF ibpi = "IBPI_PATTERN_LOCATE_OFF"
         THEN <<_disable_ibpi_state("IBPI_PATTERN_LOCATE", "or")>>
    ELSE EnableSequence(ibpi)

\* mutant of ProceedsAfterResolution: the result of drive resolution ignored
ProceedsAfterResolution_Always(drive_rc) == TRUE

\* lines 395-397: whether the write goes on after drive resolution returned drive_rc
ProceedsAfterResolution(drive_rc) == drive_rc = 0

\* mutant of _amd_ipmi_em_enabled: the transport's failure code is returned
_amd_ipmi_em_enabled_Propagates(rd_rc, status) ==
    LET channel == _ipmi_platform_channel
        slave_addr == _ipmi_platform_slave_address(NoDrive)
        read == ReadRequest(channel, slave_addr, 99, rd_rc, status)
    IN IF PlatformUndefined(channel, slave_addr) THEN [rc |-> -1, calls |-> <<>>]
       ELSE IF rd_rc # 0 THEN [rc |-> rd_rc, calls |-> <<read>>]
       ELSE IF status # 98 THEN [rc |-> 0, calls |-> <<read>>]
       ELSE [rc |-> 1, calls |-> <<read>>]

\* lines 350-382; returns [rc, calls]; rd_rc and status are the transport's answer
_amd_ipmi_em_enabled(rd_rc, status) ==
    LET channel == _ipmi_platform_channel
        slave_addr == _ipmi_platform_slave_address(NoDrive)
        read == ReadRequest(channel, slave_addr, 99, rd_rc, status)
    IN IF PlatformUndefined(channel, slave_addr) THEN [rc |-> -1, calls |-> <<>>]
       ELSE IF rd_rc # 0 THEN [rc |-> 0, calls |-> <<read>>]
       ELSE IF status # 98 THEN [rc |-> 0, calls |-> <<read>>]
       ELSE [rc |-> 1, calls |-> <<read>>]

\* what the transport can answer
ErrorCodes == {-1, 1, 2}
StatusBytes == {0, 1, 2, 90, 128, 165, 253, 255}

\* one _set_ipmi_register call of the running handler, the transport answering
\* with codes of Errs and status bytes of Statuses
SetIpmiRegisterStep(Errs, Statuses) ==
    /\ pc = "ipmi"
    /\ queue # <<>>
    /\ \E rd_rc \in {0} \cup Errs, status \in Statuses, wr_rc \in {0} \cup Errs :
        LET op == Head(queue)
            r == _set_ipmi_register(op.enable, op.reg, drive, rd_rc, status, wr_rc)
            new_rc == IF op.then = "or" THEN OrInt(rc, r.rc) ELSE r.rc
            returns == \/ Tail(queue) = <<>>
                       \/ op.then = "return_if" /\ new_rc # 0
        IN /\ calls' = calls \o r.calls
           /\ rc' = new_rc
           /\ queue' = IF returns THEN <<>> ELSE Tail(queue)
           /\ pc' = IF returns THEN "done" ELSE "ipmi"
           /\ ret' = IF returns THEN new_rc ELSE ret
    /\ UNCHANGED <<amd_interface, amd_platform, call, drive>>

\* the entry point returned: the caller is ready for its next call
Return ==
    /\ pc = "done"
    /\ pc' = "idle"
    /\ call' = NoCall
    /\ drive' = NoDrive
    /\ queue' = <<>>
    /\ calls' = <<>>
    /\ rc' = 0
    /\ ret' = 0
    /\ UNCHANGED <<amd_interface, amd_platform>>

-----------------------------------------------------------------------------
(* _set_ipmi_register on its own: every register, every resolved drive *)

Registers == {60, 65, 66, 68, 69, 70, 71}

\* the drives _get_amd_ipmi_drive produces on the platform
ResolvedDrives ==
    {_get_amd_ipmi_drive(device, 0, undef).drive :
        device \in {d \in AllDevices : \E u \in UndefinedShift :
                        _get_amd_ipmi_drive(d, 0, u).rc = 0},
        undef \in UndefinedShift}

InitReg ==
    /\ amd_interface = "AMD_UNSET"
    /\ amd_platform \in Platforms
    /\ Idle

CallSetIpmiRegister ==
    /\ pc = "idle"
    /\ \E enable \in {0, 1}, reg \in Registers, drv \in ResolvedDrives :
        /\ call' = [fn |-> "_set_ipmi_register", enable |-> enable, reg |-> reg]
        /\ drive' = drv
        /\ queue' = <<[enable |-> enable, reg |-> reg, then |-> "or"]>>
    /\ pc' = "ipmi"
    /\ calls' = <<>>
    /\ rc' = 0
    /\ ret' = 0
    /\ UNCHANGED <<amd_interface, amd_platform>>

CallAmdIpmiEmEnabled ==
    /\ pc = "idle"
    /\ \E rd_rc \in {0} \cup ErrorCodes, status \in StatusBytes \cup {98} :
        LET r == _amd_ipmi_em_enabled(rd_rc, status)
        IN /\ calls' = r.calls
           /\ ret' = r.rc
    /\ call' = [fn |-> "_amd_ipmi_em_enabled"]
    /\ pc' = "done"
    /\ UNCHANGED <<amd_interface, amd_platform, drive, queue, rc>>

NextReg ==
    \/ CallSetIpmiRegister
    \/ CallAmdIpmiEmEnabled
    \/ SetIpmiRegisterStep(ErrorCodes, StatusBytes)
    \/ Return

SpecReg == InitReg /\ [][NextReg]_vars

-----------------------------------------------------------------------------
(* The entry points, amd.c *)

\* the text get_text("/sys/class/dmi/id", "product_name") returns, or NULL
NoName == [null |-> TRUE, text |-> <<>>]
Name(text) == [null |-> FALSE, text |-> text]
ProductNames ==
    {NoName,
     Name(<<"E", "T", "H", "A", "N", "O", "L", "-", "X">>),
     Name(<<"E", "T", "H", "A", "N", "O", "L", "-", "X", "2">>),
     Name(<<"E", "T", "H", "A", "N", "O", "L">>),
     Name(<<"D", "A", "Y", "T", "O", "N", "A", "-", "X">>),
     Name(<<"G", "R", "A", "N", "D", "S", "T", "A", "N", "D">>),
     Name(<<"S", "P", "E", "E", "D", "W", "A", "Y">>),
     Name(<<"R", "O", "M", "E">>),
     Name(<<>>)}

\* mutant of _get_amd_led_interface: DAYTONA-X selects IPMI too
_get_amd_led_interface_Daytona(name) ==
    IF name.null THEN "AMD_SGPIO"
    ELSE IF strncmp0(name.text, <<"E", "T", "H", "A", "N", "O", "L", "-", "X">>, 9)
         THEN "AMD_IPMI"
    ELSE IF strncmp0(name.text, <<"D", "A", "Y", "T", "O", "N", "A", "-", "X">>, 9)
         THEN "AMD_IPMI"
    ELSE "AMD_SGPIO"

\* lines 98-122: the value _get_amd_led_interface stores in amd_interface
_get_amd_led_interface(name) ==
    IF name.null THEN "AMD_SGPIO"
    ELSE IF strncmp0(name.text, <<"E", "T", "H", "A", "N", "O", "L", "-", "X">>, 9)
         THEN "AMD_IPMI"
    ELSE IF strncmp0(name.text, <<"D", "A", "Y", "T", "O", "N", "A", "-", "X">>, 9)
         THEN "AMD_SGPIO"
    ELSE IF strncmp0(name.text, <<"G", "R", "A", "N", "D", "S", "T", "A", "N", "D">>, 10)
         THEN "AMD_SGPIO"
    ELSE IF strncmp0(name.text, <<"S", "P", "E", "E", "D", "W", "A", "Y">>, 8)
         THEN "AMD_SGPIO"
    ELSE "AMD_SGPIO"

\* what the SGPIO backend (amd_sgpio.c) returns to its caller
SgpioResults == {0, 1}

\* the devices, previous patterns and transport answers the entry points are run on
MainDevices ==
    {SataDevice(1), SataDevice(10), NvmeDevice(21),
     SataNoAta, SataNoSlash, SataMinus, NvmeNoSlot, NvmeDevice(MaxSlot)}
PrevPatterns == {"IBPI_PATTERN_UNKNOWN", "IBPI_PATTERN_NORMAL"}
MainErrors == {-1, 2}
MainStatus == {165}

\* mutant of WriteSuppressed: the comparison inverted
WriteSuppressed_Inverted(ibpi, ibpi_prev) == ibpi # ibpi_prev

\* line 152
WriteSuppressed(ibpi, ibpi_prev) == ibpi = ibpi_prev

\* lines 155-158: the backend a write that is not suppressed goes to
WriteBackend == IF amd_interface = "AMD_SGPIO" THEN "sgpio" ELSE "ipmi"

amd_em_enabled ==
    /\ pc = "idle"
    /\ \E name \in ProductNames, sgpio_rc \in SgpioResults,
          rd_rc \in {0} \cup MainErrors, status \in MainStatus \cup {98} :
        LET interface == _get_amd_led_interface(name)
            r == CASE interface = "AMD_SGPIO" -> [rc |-> sgpio_rc, calls |-> <<>>]
                   [] interface = "AMD_IPMI" -> _amd_ipmi_em_enabled(rd_rc, status)
                   [] OTHER -> [rc |-> 0, calls |-> <<>>]
        IN /\ amd_interface' = interface
           /\ call' = [fn |-> "amd_em_enabled", name |-> name]
           /\ calls' = r.calls
           /\ ret' = r.rc
    /\ pc' = "done"
    /\ UNCHANGED <<amd_platform, drive, queue, rc>>

\* amd_write up to the first _set_ipmi_register call of _amd_ipmi_write; the
\* calls that follow are SetIpmiRegisterStep
amd_write ==
    /\ pc = "idle"
    /\ \E device \in MainDevices, ibpi \in Patterns, scan_rc \in ScanResults,
          undef \in UndefinedShift, sgpio_rc \in SgpioResults :
       \E ibpi_prev \in {ibpi} \cup PrevPatterns :
        LET entry(via, drive_rc) ==
                [fn |-> "amd_write", device |-> device, ibpi |-> ibpi,
                 ibpi_prev |-> ibpi_prev, via |-> via, drive_rc |-> drive_rc]
            r == _get_amd_ipmi_drive(device, scan_rc, undef)
        IN IF WriteSuppressed(ibpi, ibpi_prev)
           THEN /\ call' = entry("suppressed", 0)
                /\ ret' = 1
                /\ pc' = "done"
                /\ UNCHANGED <<drive, queue>>
           ELSE IF WriteBackend = "sgpio"
           THEN /\ call' = entry("sgpio", 0)
                /\ ret' = sgpio_rc
                /\ pc' = "done"
                /\ UNCHANGED <<drive, queue>>
           ELSE IF ~ProceedsAfterResolution(r.rc)
           THEN /\ call' = entry("ipmi", r.rc)
                /\ ret' = r.rc
                /\ pc' = "done"
                /\ UNCHANGED <<drive, queue>>
           ELSE /\ call' = entry("ipmi", r.rc)
                /\ drive' = r.drive
                /\ queue' = WriteSequence(ibpi)
                /\ pc' = "ipmi"
                /\ UNCHANGED ret
    /\ calls' = <<>>
    /\ rc' = 0
    /\ UNCHANGED <<amd_interface, amd_platform>>

Init ==
    /\ amd_interface = "AMD_UNSET"
    /\ amd_platform \in Platforms
    /\ Idle

Next ==
    \/ amd_em_enabled
    \/ amd_write
    \/ SetIpmiRegisterStep(MainErrors, MainStatus)
    \/ Return

Spec == Init /\ [][Next]_vars

-----------------------------------------------------------------------------
(* The path resolver, amd.c: _find_file_path on its own *)

\* the most entries a searched tree holds below its root
MaxNodes == 3

\* an entry of a directory: its base name, what lstat says of it (lstat is its
\* return value), what scan_dir returns for it, and the entries below it
File(name) == [name |-> name, kind |-> "file", lstat |-> 0, scan |-> -1, entries |-> <<>>]
Dir(name, lstat, scan, entries) ==
    [name |-> name, kind |-> "dir", lstat |-> lstat, scan |-> scan, entries |-> entries]

\* the file names searched for, and the base names found in the tree
Filenames == {<<"e", "m">>, <<"e">>}
EntryNames == {<<"e", "m", "1">>, <<"e">>, <<"h">>}

\* the entries that head a forest: files and readable directories of every
\* name, and directories named h that lstat or scan_dir fails on
HeadEntries(entries) ==
    {Dir(name, 0, 0, entries) : name \in EntryNames}
    \cup {Dir(<<"h">>, -1, 0, entries), Dir(<<"h">>, 0, -1, entries)}
    \cup (IF entries = <<>> THEN {File(name) : name \in EntryNames} ELSE {})

\* no entry of the listing is named name
NameFree(name, listing) == \A i \in 1..Len(listing) : listing[i].name # name

\* the entries that head a listing, over the listings subs of what is below them
HeadsOver(subs) == UNION {HeadEntries(sub) : sub \in subs}

\* the directory listings of n entries in all, nested ones included; the
\* entries of one directory have different names
Forests[n \in 0..MaxNodes] ==
    IF n = 0 THEN {<<>>}
    ELSE UNION {{<<x[1]>> \o x[2] :
                     x \in {y \in HeadsOver(Forests[k]) \X Forests[n - 1 - k] :
                                NameFree(y[1].name, y[2])}} :
                    k \in 0..(n - 1)}

\* the directory the search starts in
StartPath == <<"/", "c">>
StartDirs ==
    {Dir(<<"c">>, 0, scan, entries) :
        scan \in ScanResults, entries \in UNION {Forests[n] : n \in 0..MaxNodes}}

\* dirname(p) of a path with no trailing '/'
dirname(p) ==
    LET i == strrchr(p, "/")
    IN IF i = 0 THEN <<".">> ELSE IF i = 1 THEN <<"/">> ELSE SubSeq(p, 1, i - 1)

\* the path scan_dir lists for an entry of the directory start_path
EntryPath(start_path, e) == start_path \o <<"/">> \o e.name

\* mutant of NameMatches: the whole name compared
NameMatches_Whole(dir_name, filename) == dir_name = filename

\* line 73: strncmp(dir_name, filename, strlen(filename)) == 0
NameMatches(dir_name, filename) == strncmp0(dir_name, filename, Len(filename))

\* lines 52-96; dir is the directory at start_path, path the caller's buffer.
\* Returns [found, path, scans]: the value returned, the buffer afterwards and
\* the directories scan_dir was called on, in order.
RECURSIVE _find_file_path(_, _, _, _)
RECURSIVE ListForEach(_, _, _, _)

\* lines 68-93: the loop over the listing, from its entry at the head of entries
ListForEach(start_path, entries, filename, path) ==
    IF entries = <<>> THEN [found |-> 0, path |-> path, scans |-> <<>>]
    ELSE LET dir_path == EntryPath(start_path, Head(entries))
             slash == strrchr(dir_path, "/")
             dir_name == SubSeq(dir_path, slash + 1, Len(dir_path))
             next == ListForEach(start_path, Tail(entries), filename, path)
         IN IF slash = 0 THEN next
            ELSE IF NameMatches(dir_name, filename)
            THEN [found |-> 1, path |-> dirname(dir_path), scans |-> <<>>]
            ELSE IF Head(entries).lstat = -1 THEN next
            ELSE IF Head(entries).kind = "dir"
            THEN LET r == _find_file_path(dir_path, Head(entries), filename, path)
                     after == ListForEach(start_path, Tail(entries), filename, r.path)
                 IN IF r.found # 0 THEN r
                    ELSE [found |-> after.found, path |-> after.path,
                          scans |-> r.scans \o after.scans]
            ELSE next

_find_file_path(start_path, dir, filename, path) ==
    IF dir.scan # 0 THEN [found |-> 0, path |-> path, scans |-> <<start_path>>]
    ELSE LET r == ListForEach(start_path, dir.entries, filename, path)
         IN [found |-> r.found, path |-> r.path, scans |-> <<start_path>> \o r.scans]

\* the caller's buffer before the call: nothing in it is a path
NoPath == <<>>

FindFilePath ==
    /\ pc = "idle"
    /\ \E dir \in StartDirs, filename \in Filenames :
        LET r == _find_file_path(StartPath, dir, filename, NoPath)
        IN /\ call' = [fn |-> "_find_file_path", dir |-> dir, filename |-> filename,
                       path |-> r.path, scans |-> r.scans]
           /\ ret' = r.found
    /\ pc' = "done"
    /\ UNCHANGED <<amd_interface, amd_platform, drive, queue, calls, rc>>

NextFind == FindFilePath

SpecFind == Init /\ [][NextFind]_vars

-----------------------------------------------------------------------------
(* Properties of drive resolution (SpecDrive) *)

Resolved == call.fn = "_get_amd_ipmi_drive" /\ pc = "done" /\ ret = 0
ResolveFailed == call.fn = "_get_amd_ipmi_drive" /\ pc = "done" /\ ret # 0

\* the correction the specification states for each platform
StatedCorrection ==
    CASE amd_platform = DAYTONA_X -> 2
      [] amd_platform = ETHANOL_X -> 7
      [] OTHER -> 0

OneBitBytes == {1, 2, 4, 8, 16, 32, 64, 128}

\* C4: a corrected NVMe port outside [0, 24] (and an unmatched slot) makes drive
\* resolution fail, and a drive that resolution accepted was built with a
\* non-negative shift port - 1 and has a non-negative bay mask.
C4_PortValidity ==
    /\ \A n \in 0..MaxSlot :
           (/\ call.fn = "_get_amd_ipmi_drive"
            /\ call.device = NvmeDevice(n)
            /\ (n - StatedCorrection < 0 \/ n - StatedCorrection > 24))
           => ret # 0
    /\ (call.fn = "_get_amd_ipmi_drive" /\ call.device = NvmeNoSlot) => ret # 0
    /\ Resolved => (drive.port - 1 >= 0 /\ drive.drive_bay >= 0)

\* C5: a resolved SATA drive has bay mask 1 << ((port - 1) mod 8), the bit in
\* 0..7 and the port as written in the path; a resolved NVMe drive has bay
\* mask 1 << (port - 1).
C5_BayMaskDerivation ==
    Resolved =>
        IF drive.dev = AMD_SATA_DEVICE
        THEN /\ drive.port - 1 >= 0
             /\ drive.drive_bay = 2 ^ ((drive.port - 1) % 8)
             /\ \A n \in 1..MaxAta : call.device = SataDevice(n) => drive.port = n
        ELSE /\ drive.port - 1 >= 0
             /\ drive.drive_bay = 2 ^ (drive.port - 1)

\* C6: the bay mask of every resolved drive is a byte with exactly one bit set
\* (stated for the drives whose shift port - 1 is defined, port >= 1).
C6_OneBitBayMask == (Resolved /\ drive.port >= 1) => drive.drive_bay \in OneBitBytes

\* C15: with the slots scanned, the NVMe controller of raw slot port n resolves
\* to port n - 2 on DaytonaX, n - 7 on EthanolX and n elsewhere when that
\* corrected port is in [0, 24], and is refused when it is not (the raw port is
\* not what is validated); a SATA drive keeps the port written in its path.
C15_PortCorrection ==
    call.fn = "_get_amd_ipmi_drive" =>
        /\ \A n \in 0..MaxSlot :
               (call.device = NvmeDevice(n) /\ call.scan_rc = 0) =>
                   IF n - StatedCorrection < 0 \/ n - StatedCorrection > 24
                   THEN ret # 0
                   ELSE ret = 0 /\ drive.port = n - StatedCorrection
        /\ \A n \in 1..MaxAta :
               call.device = SataDevice(n) => (ret = 0 /\ drive.port = n)

C15_Witness ==
    /\ Resolved /\ amd_platform = ETHANOL_X
    /\ call.device = NvmeDevice(26)
    /\ drive.port = 19

-----------------------------------------------------------------------------
(* Properties of the register protocol (SpecReg) *)

IsRead(c) == c.data_len = 4
IsWrite(c) == c.data_len = 5
Failed(c) == c.rc # 0

\* data is the byte status with the bit of the one-bit mask bay set to enable
\* and every other bit kept
BitsAsExpected(enable, status, bay, data) ==
    /\ data \in 0..255
    /\ \A i \in 0..7 :
           BitAt(data, i) = IF bay = 2 ^ i THEN enable ELSE BitAt(status, i)

SetRegisterDone == call.fn = "_set_ipmi_register" /\ pc = "done"

\* C2: on a platform other than EthanolX and DaytonaX, _set_ipmi_register and
\* the capability probe return -1 and send no request.
C2_UnsupportedPlatformFails ==
    (/\ amd_platform \notin {ETHANOL_X, DAYTONA_X}
     /\ pc = "done"
     /\ call.fn \in {"_set_ipmi_register", "_amd_ipmi_em_enabled"})
    => (ret = -1 /\ calls = <<>>)

\* C7: a _set_ipmi_register call that returns 0 sent one read and then one
\* write with the read's channel, slave address and register; the byte written
\* is the byte read with the drive's bay bit set (enable) or cleared (disable)
\* and every other bit unchanged.
C7_ReadModifyWrite ==
    (SetRegisterDone /\ ret = 0) =>
        /\ Len(calls) = 2
        /\ IsRead(calls[1]) /\ IsWrite(calls[2])
        /\ calls[1].rc = 0 /\ calls[2].rc = 0
        /\ calls[1].reg = call.reg /\ calls[2].reg = call.reg
        /\ calls[2].channel = calls[1].channel
        /\ calls[2].slave_addr = calls[1].slave_addr
        /\ calls[1].len = 1 /\ calls[2].len = 1
        /\ BitsAsExpected(call.enable, calls[1].status, drive.drive_bay, calls[2].data)

C7_Witness ==
    /\ SetRegisterDone /\ ret = 0
    /\ call.enable = 0 /\ drive.drive_bay = 4
    /\ calls[1].status = 165 /\ calls[2].data = 161

\* C8: a _set_ipmi_register call sends at most one read and at most one write;
\* when the read fails no write is sent and the read's code is returned; when
\* the write fails its code is returned.
C8_NoRetry ==
    SetRegisterDone =>
        /\ Len(calls) <= 2
        /\ Cardinality({i \in 1..Len(calls) : IsRead(calls[i])}) <= 1
        /\ Cardinality({i \in 1..Len(calls) : IsWrite(calls[i])}) <= 1
        /\ calls # <<>> => IsRead(calls[1])
        /\ (calls # <<>> /\ Failed(calls[1])) => (Len(calls) = 1 /\ ret = calls[1].rc)
        /\ Len(calls) = 2 => (IsWrite(calls[2]) /\ ret = calls[2].rc)

C8_Witness ==
    /\ SetRegisterDone
    /\ Len(calls) = 1 /\ IsRead(calls[1]) /\ calls[1].rc = 2 /\ ret = 2

\* the slave address the specification states for the running call
StatedSlaveAddress ==
    IF amd_platform = ETHANOL_X THEN 192
    ELSE IF call.fn = "_amd_ipmi_em_enabled" THEN 192
    ELSE IF drive.dev = AMD_NVME_DEVICE THEN 196
    ELSE IF drive.port <= 8 THEN 192
    ELSE IF drive.port < 17 THEN 194
    ELSE 196

\* C11: on DaytonaX every request of _set_ipmi_register carries slave address
\* 0xc4 for an NVMe drive, and for a SATA drive 0xc0 when port <= 8, 0xc2 when
\* 8 < port < 17, 0xc4 when port >= 17; the probe, which has no drive, uses
\* 0xc0; on EthanolX every request carries 0xc0.
C11_SlaveAddress ==
    (/\ amd_platform \in {ETHANOL_X, DAYTONA_X}
     /\ call.fn \in {"_set_ipmi_register", "_amd_ipmi_em_enabled"})
    => \A i \in 1..Len(calls) : calls[i].slave_addr = StatedSlaveAddress

ProbeDone == call.fn = "_amd_ipmi_em_enabled" /\ pc = "done"

\* C12: the capability probe sends exactly one request, the read of register
\* 0x63 (with slave address 0xc0 on EthanolX and DaytonaX), and no write; it
\* returns 1 when the read succeeded with code 98 and 0 in every other case,
\* never another value.
C12_ProbeBoolean ==
    ProbeDone =>
        /\ Len(calls) = 1
        /\ IsRead(calls[1]) /\ calls[1].reg = 99 /\ calls[1].len = 1
        /\ amd_platform \in {ETHANOL_X, DAYTONA_X} => calls[1].slave_addr = 192
        /\ ret \in {0, 1}
        /\ (ret = 1) <=> (calls[1].rc = 0 /\ calls[1].status = 98)

C12_Witness ==
    /\ ProbeDone /\ amd_platform = DAYTONA_X
    /\ Len(calls) = 1 /\ calls[1].rc = -1 /\ ret = 0

C11_Witness ==
    /\ SetRegisterDone /\ amd_platform = DAYTONA_X
    /\ drive.dev = AMD_SATA_DEVICE /\ drive.port = 8
    /\ Len(calls) = 2
    /\ calls[1].slave_addr = 192 /\ calls[2].slave_addr = 192

-----------------------------------------------------------------------------
(* Properties of the entry points (Spec) *)

IpmiWrite == call.fn = "amd_write" /\ call.via = "ipmi"
IpmiWriteResolved == IpmiWrite /\ call.drive_rc = 0

\* C1: a write whose pattern is the device's ibpi_prev returns 1 without
\* resolving the drive and without a transport request, whatever amd_interface is.
C1_WriteSuppression ==
    (call.fn = "amd_write" /\ call.ibpi = call.ibpi_prev) =>
        /\ pc = "done"
        /\ ret = 1
        /\ calls = <<>>
        /\ call.via = "suppressed"
        /\ drive = NoDrive /\ queue = <<>>

C1_Witness ==
    /\ call.fn = "amd_write" /\ pc = "done"
    /\ call.ibpi = "IBPI_PATTERN_LOCATE" /\ call.ibpi_prev = "IBPI_PATTERN_LOCATE"
    /\ call.device = SataDevice(10)
    /\ amd_interface = "AMD_IPMI"
    /\ ret = 1 /\ calls = <<>>

\* C3: when drive resolution fails in _amd_ipmi_write (no "ata", no '/' after
\* it, a port of -1, no matching slot, a port out of range), the write returns the failure
\* and sends no transport request, whatever the pattern.
C3_ResolutionFailureStops ==
    IpmiWrite =>
        /\ call.device \in {SataNoAta, SataNoSlash, SataMinus, NvmeNoSlot,
                            NvmeDevice(MaxSlot)}
               => call.drive_rc # 0
        /\ call.drive_rc # 0 => (pc = "done" /\ ret # 0 /\ calls = <<>> /\ queue = <<>>)

C3_Witness ==
    /\ IpmiWrite /\ pc = "done"
    /\ call.device = SataNoSlash
    /\ call.ibpi = "IBPI_PATTERN_LOCATE"
    /\ ret = -1 /\ calls = <<>>

ReadRegisters == [i \in 1..Len(SelectSeq(calls, IsRead)) |-> SelectSeq(calls, IsRead)[i].reg]

\* C9: a resolved write of Normal or OneshotNormal reads, in this order, the
\* registers 0x41, 0x42, 0x44, 0x45, 0x46, whichever of the five calls fail; each
\* write request follows the successful read of its register and clears the bay
\* bit; the result is non-zero iff some request failed; no request names 0x3c
\* or 0x47.
C9_BulkClear ==
    (IpmiWriteResolved /\ call.ibpi \in NormalPatterns /\ pc = "done") =>
        /\ ReadRegisters = <<65, 66, 68, 69, 70>>
        /\ \A i \in 1..Len(calls) :
               /\ calls[i].reg \notin {60, 71}
               /\ IsWrite(calls[i]) =>
                      /\ i > 1 /\ IsRead(calls[i - 1]) /\ ~Failed(calls[i - 1])
                      /\ calls[i - 1].reg = calls[i].reg
                      /\ BitsAsExpected(0, calls[i - 1].status, drive.drive_bay,
                                        calls[i].data)
               /\ (IsRead(calls[i]) /\ ~Failed(calls[i])) =>
                      (i < Len(calls) /\ IsWrite(calls[i + 1]))
        /\ (ret # 0) <=> (\E i \in 1..Len(calls) : Failed(calls[i]))

C9_Witness ==
    /\ IpmiWriteResolved /\ call.ibpi = "IBPI_PATTERN_NORMAL" /\ pc = "done"
    /\ Failed(calls[1])
    /\ Len(calls) = 9
    /\ ~Failed(calls[9])
    /\ ret # 0

\* C10: in a resolved write of a settable pattern the first request is the read
\* of 0x3c; a request on another register is sent only after the read and the
\* enabling write of 0x3c both succeeded; the first failing request ends the
\* write and its code is the result; the result is 0 only after the pattern's
\* register was read and written too.
C10_SmbusControlFirst ==
    (IpmiWriteResolved /\ call.ibpi \in SettablePatterns) =>
        /\ calls # <<>> => (IsRead(calls[1]) /\ calls[1].reg = 60)
        /\ \A i \in 1..Len(calls) :
               calls[i].reg # 60 =>
                   /\ i >= 3
                   /\ calls[i].reg = amd_ibpi_ipmi_register(call.ibpi)
                   /\ IsRead(calls[1]) /\ calls[1].reg = 60 /\ ~Failed(calls[1])
                   /\ IsWrite(calls[2]) /\ calls[2].reg = 60 /\ ~Failed(calls[2])
                   /\ BitsAsExpected(1, calls[1].status, drive.drive_bay, calls[2].data)
        /\ \A i \in 1..(Len(calls) - 1) : ~Failed(calls[i])
        /\ pc = "done" =>
               /\ calls # <<>>
               /\ ret = calls[Len(calls)].rc
               /\ ret = 0 =>
                      /\ Len(calls) = 4
                      /\ IsRead(calls[3]) /\ IsWrite(calls[4])
                      /\ calls[4].reg = amd_ibpi_ipmi_register(call.ibpi)

C10_Witness ==
    /\ IpmiWriteResolved /\ call.ibpi = "IBPI_PATTERN_LOCATE" /\ pc = "done"
    /\ call.device = SataDevice(10)
    /\ amd_platform = DAYTONA_X
    /\ Len(calls) = 4
    /\ calls[1].reg = 60 /\ calls[3].reg = 66 /\ calls[4].data = 167
    /\ ret = 0

\* C17: a resolved write of LOCATE_OFF sends requests on register 0x42 only (none
\* on 0x3c or another pattern register): one read and, when the read succeeded,
\* one write of the byte read with the drive's bay bit cleared and the other
\* bits kept; it returns the result of the last request.
C17_LocateOffClearsLocate ==
    (IpmiWriteResolved /\ call.ibpi = "IBPI_PATTERN_LOCATE_OFF") =>
        /\ Len(calls) <= 2
        /\ \A i \in 1..Len(calls) : calls[i].reg = 66
        /\ calls # <<>> => IsRead(calls[1])
        /\ Len(calls) = 2 =>
               /\ IsWrite(calls[2]) /\ ~Failed(calls[1])
               /\ BitsAsExpected(0, calls[1].status, drive.drive_bay, calls[2].data)
        /\ pc = "done" =>
               /\ calls # <<>>
               /\ ~Failed(calls[1]) => Len(calls) = 2
               /\ ret = calls[Len(calls)].rc

C17_Witness ==
    /\ IpmiWriteResolved /\ call.ibpi = "IBPI_PATTERN_LOCATE_OFF" /\ pc = "done"
    /\ call.device = SataDevice(1)
    /\ Len(calls) = 2
    /\ calls[1].reg = 66 /\ calls[1].status = 165 /\ calls[2].data = 164
    /\ ret = 0

\* the text starts with ETHANOL-X
StartsWithEthanolX(name) ==
    /\ ~name.null
    /\ Len(name.text) >= 9
    /\ \A i \in 1..9 : name.text[i] = <<"E", "T", "H", "A", "N", "O", "L", "-", "X">>[i]

EmEnabledDone == call.fn = "amd_em_enabled" /\ pc = "done"

\* C13: after amd_em_enabled read the product name, amd_interface is AMD_IPMI
\* when the name starts with ETHANOL-X and AMD_SGPIO for every other name and
\* for an absent name; it is never AMD_UNSET.
C13_DetectionPolicy ==
    EmEnabledDone =>
        /\ amd_interface \in {"AMD_IPMI", "AMD_SGPIO"}
        /\ (amd_interface = "AMD_IPMI") <=> StartsWithEthanolX(call.name)

C13_Witness ==
    /\ EmEnabledDone
    /\ call.name = Name(<<"D", "A", "Y", "T", "O", "N", "A", "-", "X">>)
    /\ amd_interface = "AMD_SGPIO"
    /\ amd_platform = DAYTONA_X

\* C14: once detection has run, amd_interface never changes again, whatever
\* product name a later amd_em_enabled call would read, and never returns to
\* AMD_UNSET.
C14_DetectionMemoized ==
    [][amd_interface # "AMD_UNSET" => amd_interface' = amd_interface]_vars

-----------------------------------------------------------------------------
(* Properties of the path resolver (SpecFind) *)

FindDone == call.fn = "_find_file_path" /\ pc = "done"

\* every entry below the directory parent, in depth-first order: an entry
\* before the entries below it, these before its later siblings
RECURSIVE DepthFirst(_, _)
DepthFirst(parent, entries) ==
    IF entries = <<>> THEN <<>>
    ELSE <<[parent |-> parent, name |-> Head(entries).name]>>
         \o DepthFirst(parent \o <<"/">> \o Head(entries).name, Head(entries).entries)
         \o DepthFirst(parent, Tail(entries))

\* the directories among the entries, nested ones included
RECURSIVE Directories(_)
Directories(entries) ==
    IF entries = <<>> THEN <<>>
    ELSE (IF Head(entries).kind = "dir" THEN <<Head(entries)>> ELSE <<>>)
         \o Directories(Head(entries).entries) \o Directories(Tail(entries))

\* lstat and scan_dir succeed on every directory of the tree
AllReadable(dir) ==
    LET dirs == <<dir>> \o Directories(dir.entries)
    IN \A i \in 1..Len(dirs) : dirs[i].lstat = 0 /\ dirs[i].scan = 0

StartsWith(name, prefix) ==
    /\ Len(name) >= Len(prefix)
    /\ \A i \in 1..Len(prefix) : name[i] = prefix[i]

\* C18: _find_file_path returns 0 or 1 after scanning each directory at most
\* once; 0 when the start directory cannot be scanned and when no entry of the
\* tree has a name starting with filename; when it returns 1 the buffer holds the
\* parent of an entry with such a name; and on a tree whose directories can all
\* be read it returns 1 exactly when such an entry exists, with the parent of the
\* first one in depth-first order.
C18_PathResolver ==
    FindDone =>
        LET all == DepthFirst(StartPath, call.dir.entries)
            hits == {i \in 1..Len(all) : StartsWith(all[i].name, call.filename)}
        IN /\ ret \in {0, 1}
           /\ Len(call.scans) <= 1 + Len(Directories(call.dir.entries))
           /\ \A i, j \in 1..Len(call.scans) : call.scans[i] = call.scans[j] => i = j
           /\ call.dir.scan # 0 => ret = 0
           /\ hits = {} => ret = 0
           /\ ret = 1 => \E i \in hits : call.path = all[i].parent
           /\ AllReadable(call.dir) =>
                  /\ (ret = 1) <=> (hits # {})
                  /\ ret = 1 => call.path = all[Min(hits)].parent

C18_Witness ==
    /\ FindDone
    /\ call.filename = <<"e">>
    /\ call.dir = Dir(<<"c">>, 0, 0,
                      <<Dir(<<"h">>, 0, 0, <<File(<<"e", "m", "1">>)>>),
                        File(<<"e">>)>>)
    /\ ret = 1
    /\ call.path = <<"/", "c", "/", "h">>

-----------------------------------------------------------------------------
(* Properties of the entry points in any call order (Spec) *)

\* C19: a write that is not suppressed goes to the IPMI backend, and sends IPMI
\* requests, only while amd_interface is AMD_IPMI; with AMD_UNSET or AMD_SGPIO
\* it never does.
C19_DispatchRespectsInterface ==
    (call.fn = "amd_write" /\ (call.via = "ipmi" \/ calls # <<>>))
    => amd_interface = "AMD_IPMI"

\* C20: every request of a write on the IPMI interface names register 0x3c or a register of the
\* table (0x41, 0x42, 0x44, 0x45, 0x46, 0x47), whatever the pattern; none names
\* register 0x00.
C20_OnlyDefinedRegisters ==
    (call.fn = "amd_write" /\ amd_interface = "AMD_IPMI") =>
        \A i \in 1..Len(calls) : calls[i].reg \in {60, 65, 66, 68, 69, 70, 71}

====
